---------------------------- MODULE Spec2Model ----------------------------
(***************************************************************************)
(* A model of the object store of rs-git (src/git.rs): the Blob and Tree   *)
(* objects, their encoding, their SHA1 address, the zlib-compressed loose  *)
(* object files under .git/objects, and the decoder read_from_sha1.        *)
(*                                                                         *)
(* Bytes are integers 0..255.  A Rust String is the sequence of its UTF-8  *)
(* bytes; a Vec<u8> is a sequence of bytes.  A fallible call returns a     *)
(* record [kind, err, obj] whose kind is "Ok", "Err" (the Err(..) value    *)
(* handed back to the caller) or "Panic" (the thread unwinds: unwrap,      *)
(* expect, an out-of-range slice, todo!()).                                *)
(***************************************************************************)
EXTENDS Integers, Sequences, FiniteSets, TLC

(***************************************************************************)
(* Bounds of the model.                                                    *)
(***************************************************************************)
MaxContentLen == 2      \* longest file content handed to from_path
MaxDirEntries == 2      \* most members of a directory handed to read_from_dir
MaxObjects == 1         \* most files the store holds before writes to new paths stop
MaxTreeEntries == 2     \* most entries of a tree body found in the store

(***************************************************************************)
(* Program constants.                                                      *)
(***************************************************************************)
SP == 32                \* b' '
NUL == 0                \* b'\0'
ShaBytes == 20          \* .take(20): the raw address bytes of an entry
PrefixLen == 2          \* &sha1[..2]

B_blob == <<98, 108, 111, 98>>
B_tree == <<116, 114, 101, 101>>
B_commit == <<99, 111, 109, 109, 105, 116>>
B_target == <<116, 97, 114, 103, 101, 116>>
B_dotgit == <<46, 103, 105, 116>>

(***************************************************************************)
(* Results.                                                                *)
(***************************************************************************)
NoObject == [type |-> "none"]
Ok(o) == [kind |-> "Ok", err |-> "", obj |-> o]
Err(e) == [kind |-> "Err", err |-> e, obj |-> NoObject]
Panic(at) == [kind |-> "Panic", err |-> at, obj |-> NoObject]

Blob(len, content) == [type |-> "blob", len |-> len, content |-> content]
Tree(len, entries) == [type |-> "tree", len |-> len, entries |-> entries]
Entry(mode, type_, name, sha1) ==
    [mode |-> mode, type_ |-> type_, name |-> name, sha1 |-> sha1]

(***************************************************************************)
(* Sequences of bytes.                                                     *)
(***************************************************************************)
RECURSIVE Concat(_)
Concat(seqs) ==
    IF seqs = <<>> THEN <<>> ELSE Head(seqs) \o Concat(Tail(seqs))

Drop(s, n) == IF n >= Len(s) THEN <<>> ELSE SubSeq(s, n + 1, Len(s))
Take(s, n) == IF n >= Len(s) THEN s ELSE SubSeq(s, 1, n)

\* The position of the first `target` in bytes, or 0.
FirstIndex(bytes, target) ==
    IF \E i \in 1..Len(bytes) : bytes[i] = target
    THEN CHOOSE i \in 1..Len(bytes) :
            /\ bytes[i] = target
            /\ \A j \in 1..(i - 1) : bytes[j] # target
    ELSE 0

\* take_while(|b| *b != target) on the iterator: the bytes left of the first
\* target are returned, the target itself is consumed too; with no target in
\* the iterator everything is returned and the iterator is left empty.
take_until(bytes, target) ==
    LET i == FirstIndex(bytes, target) IN
    IF i = 0 THEN [taken |-> bytes, rest |-> <<>>]
    ELSE [taken |-> Take(bytes, i - 1), rest |-> Drop(bytes, i)]

(***************************************************************************)
(* String::from_utf8: whether the bytes are well-formed UTF-8.             *)
(***************************************************************************)
IsCont(b) == b \in 128..191

RECURSIVE IsUtf8(_)
IsUtf8(s) ==
    IF s = <<>> THEN TRUE
    ELSE LET b == s[1]
             n == Len(s) IN
         IF b <= 127 THEN IsUtf8(Tail(s))
         ELSE IF b \in 194..223
              THEN n >= 2 /\ IsCont(s[2]) /\ IsUtf8(Drop(s, 2))
         ELSE IF b \in 224..239
              THEN /\ n >= 3
                   /\ IsCont(s[2]) /\ IsCont(s[3])
                   /\ (b = 224 => s[2] >= 160)
                   /\ (b = 237 => s[2] <= 159)
                   /\ IsUtf8(Drop(s, 3))
         ELSE IF b \in 240..244
              THEN /\ n >= 4
                   /\ IsCont(s[2]) /\ IsCont(s[3]) /\ IsCont(s[4])
                   /\ (b = 240 => s[2] >= 144)
                   /\ (b = 244 => s[2] <= 143)
                   /\ IsUtf8(Drop(s, 4))
         ELSE FALSE

(***************************************************************************)
(* Numbers as text.                                                        *)
(***************************************************************************)
IsDigit(b) == b \in 48..57

RECURSIVE RadixStr(_, _)
RadixStr(n, radix) ==
    IF n < radix THEN <<48 + n>>
    ELSE Append(RadixStr(n \div radix, radix), 48 + (n % radix))

\* i32::to_string (format!("{}", len)).
DecStr(n) == IF n < 0 THEN <<45>> \o RadixStr(0 - n, 10) ELSE RadixStr(n, 10)

\* format!("{:o}", mode).
OctStr(n) == RadixStr(n, 8)

\* The value of a run of decimal digits, accumulated as the standard library
\* does, or -1 when it leaves 0..2147483647.
RECURSIVE DigitsValue(_, _)
DigitsValue(digits, acc) ==
    IF digits = <<>> THEN acc
    ELSE LET d == Head(digits) - 48 IN
         IF acc > 214748364 \/ (acc = 214748364 /\ d > 7) THEN -1
         ELSE DigitsValue(Tail(digits), acc * 10 + d)

AllDigits(s) == s # <<>> /\ \A i \in 1..Len(s) : IsDigit(s[i])

\* str::parse::<i32>: an optional sign, then one digit or more, within i32.
\* (-2147483648, the one i32 whose magnitude DigitsValue refuses, is read
\* as an i32 too.)
ParseI32(s) ==
    LET signed == s # <<>> /\ s[1] \in {43, 45}
        digits == IF signed THEN Tail(s) ELSE s
        v == IF AllDigits(digits) THEN DigitsValue(digits, 0) ELSE -1 IN
    IF ~AllDigits(digits) THEN [ok |-> FALSE, val |-> 0]
    ELSE IF v >= 0
         THEN [ok |-> TRUE, val |-> IF signed /\ s[1] = 45 THEN 0 - v ELSE v]
    ELSE IF /\ signed /\ s[1] = 45
            /\ DigitsValue(Take(digits, Len(digits) - 1), 0) = 214748364
            /\ digits[Len(digits)] = 56
         THEN [ok |-> TRUE, val |-> (0 - 2147483647) - 1]
    ELSE [ok |-> FALSE, val |-> 0]

\* str::parse::<u32>: an optional '+', then one digit or more.  The model
\* holds a mode in a 32-bit signed integer, so it reads mode tokens up to
\* 2147483647; every mode token of the model has at most six digits.
ParseU32(s) ==
    LET plus == s # <<>> /\ s[1] = 43
        digits == IF plus THEN Tail(s) ELSE s
        v == IF AllDigits(digits) THEN DigitsValue(digits, 0) ELSE -1 IN
    IF v >= 0 THEN [ok |-> TRUE, val |-> v] ELSE [ok |-> FALSE, val |-> 0]

(***************************************************************************)
(* Hexadecimal text.                                                       *)
(***************************************************************************)
HexDigit(v) == IF v < 10 THEN 48 + v ELSE 87 + v

\* format!("{:02x}", b)
Hex2(b) == <<HexDigit(b \div 16), HexDigit(b % 16)>>

RECURSIVE encode_hex(_)
encode_hex(bytes) ==
    IF bytes = <<>> THEN <<>> ELSE Hex2(Head(bytes)) \o encode_hex(Tail(bytes))

IsHexChar(c) == c \in 48..57 \/ c \in 97..102 \/ c \in 65..70
HexVal(c) == IF c \in 48..57 THEN c - 48
             ELSE IF c \in 97..102 THEN c - 87 ELSE c - 55

\* u8::from_str_radix(&s[i..i + 2], 16): two hex digits, or '+' and one.
IsHexPair(a, b) == IsHexChar(b) /\ (IsHexChar(a) \/ a = 43)
HexPairVal(a, b) == IF a = 43 THEN HexVal(b) ELSE 16 * HexVal(a) + HexVal(b)

RECURSIVE HexPairs(_)
HexPairs(s) ==
    IF s = <<>> THEN <<>>
    ELSE <<HexPairVal(s[1], s[2])>> \o HexPairs(Drop(s, 2))

\* decode_hex: the slice s[i..i + 2] of a string of odd length runs past its
\* end and panics; a pair that is no hex number makes the result an Err.
decode_hex(s) ==
    IF Len(s) % 2 = 1 THEN [kind |-> "Panic", bytes |-> <<>>]
    ELSE IF \E i \in 1..(Len(s) \div 2) : ~IsHexPair(s[2 * i - 1], s[2 * i])
         THEN [kind |-> "Err", bytes |-> <<>>]
    ELSE [kind |-> "Ok", bytes |-> HexPairs(s)]

(***************************************************************************)
(* Sha1::digest (crate sha1).  The program relies on it for a fixed-width,  *)
(* deterministic digest of the bytes it is given; the model computes a     *)
(* 20-byte digest from two polynomial hashes of the bytes, spreading their *)
(* four base-256 digits over the 20 positions.                             *)
(***************************************************************************)
RECURSIVE PowMod(_, _, _)
PowMod(b, k, p) ==
    IF k = 0 THEN 1
    ELSE LET h == PowMod(b, k \div 2, p) IN
         (((h * h) % p) * (IF k % 2 = 1 THEN b ELSE 1)) % p

\* The sum of (s[i] + 1) * b^(hi - i) for i in lo..hi, modulo p.
RECURSIVE PolyHash(_, _, _, _, _)
PolyHash(s, lo, hi, b, p) ==
    IF lo > hi THEN 0
    ELSE IF lo = hi THEN (s[lo] + 1) % p
    ELSE LET mid == (lo + hi) \div 2 IN
         (PolyHash(s, lo, mid, b, p) * PowMod(b, hi - mid, p)
             + PolyHash(s, mid + 1, hi, b, p)) % p

Sha1_digest(bytes) ==
    LET h1 == PolyHash(bytes, 1, Len(bytes), 131, 46337)
        h2 == PolyHash(bytes, 1, Len(bytes), 137, 46327)
        limbs == <<h1 % 256, h1 \div 256, h2 % 256, h2 \div 256>> IN
    [i \in 1..ShaBytes |-> (limbs[(i % 4) + 1] * (2 * i + 1) + i) % 256]

(***************************************************************************)
(* zlib (crate flate2).  The stream the model writes is a zlib stream of   *)
(* one stored block: the two header bytes, the block header with LEN and   *)
(* its complement NLEN, the bytes, and their Adler-32 checksum.            *)
(***************************************************************************)
RECURSIVE SumOver(_, _, _)
SumOver(s, lo, hi) ==
    IF lo > hi THEN 0
    ELSE IF lo = hi THEN s[lo]
    ELSE LET mid == (lo + hi) \div 2 IN
         SumOver(s, lo, mid) + SumOver(s, mid + 1, hi)

\* Adler-32, most significant byte first: a is 1 plus the sum of the bytes, b
\* the sum of the values a takes, both modulo 65521.
Adler32(bytes) ==
    LET n == Len(bytes)
        a == (1 + SumOver(bytes, 1, n)) % 65521
        b == (n + SumOver([i \in 1..n |-> (n - i + 1) * bytes[i]], 1, n)) % 65521 IN
    <<b \div 256, b % 256, a \div 256, a % 256>>

zlib_compress(s) ==
    LET n == Len(s) IN
    <<120, 156, 1, n % 256, n \div 256, 255 - (n % 256), 255 - (n \div 256)>>
        \o s \o Adler32(s)

\* What the inflater makes of a file: "end" (a whole stream, bytes after it
\* are not read), "corrupt" (a header, a length or a checksum that does not
\* match) or "truncated" (the file ends inside the stream), with the bytes
\* inflated so far.
Inflate(file) ==
    LET n == Len(file)
        IsPrefix(a, b) == Len(a) <= Len(b) /\ a = Take(b, Len(a)) IN
    IF n < 2
    THEN IF IsPrefix(file, <<120>>)
         THEN [status |-> "truncated", data |-> <<>>]
         ELSE [status |-> "corrupt", data |-> <<>>]
    ELSE IF file[1] % 16 # 8 \/ (file[1] * 256 + file[2]) % 31 # 0
         THEN [status |-> "corrupt", data |-> <<>>]
    ELSE IF n < 7
         THEN IF n >= 3 /\ file[3] # 1
              THEN [status |-> "corrupt", data |-> <<>>]
              ELSE [status |-> "truncated", data |-> <<>>]
    ELSE IF file[3] # 1 \/ file[4] + file[6] # 255 \/ file[5] + file[7] # 255
         THEN [status |-> "corrupt", data |-> <<>>]
    ELSE LET len == file[4] + 256 * file[5]
             data == Take(Drop(file, 7), len)
             sum == Take(Drop(file, 7 + len), 4) IN
         IF Len(data) < len \/ Len(sum) < 4
         THEN IF IsPrefix(sum, Adler32(data)) \/ Len(data) < len
              THEN [status |-> "truncated", data |-> data]
              ELSE [status |-> "corrupt", data |-> data]
         ELSE IF sum = Adler32(data)
              THEN [status |-> "end", data |-> data]
              ELSE [status |-> "corrupt", data |-> data]

\* ZlibDecoder::read_to_end: the inflated bytes of a whole stream, an error
\* for a corrupt one.  For a file that ends inside the stream the outcome
\* depends on the flate2 release: an error, or the bytes inflated so far.
zlib_decompress(file) ==
    LET z == Inflate(file) IN
    IF z.status = "end" THEN {[kind |-> "Ok", bytes |-> z.data]}
    ELSE IF z.status = "corrupt" THEN {[kind |-> "Err", bytes |-> <<>>]}
    ELSE {[kind |-> "Ok", bytes |-> z.data], [kind |-> "Err", bytes |-> <<>>]}

(***************************************************************************)
(* The loose-object files: objects maps <<prefix, suffix>>, the directory  *)
(* and the file name under .git/objects, to the bytes of the file.         *)
(***************************************************************************)
PathOf(sha1) == <<Take(sha1, PrefixLen), Drop(sha1, PrefixLen)>>

\* get_object_file_as_byte_vec.  With an empty suffix the path names the
\* directory .git/objects/<prefix>: when it exists File::open opens it, the
\* read of a directory fails and expect("buffer overflow") panics.
get_object_file_as_byte_vec(store, prefix, suffix) ==
    IF suffix = <<>>
    THEN IF \E k \in DOMAIN store : k[1] = prefix
         THEN [kind |-> "Panic", err |-> "expect", bytes |-> <<>>]
         ELSE [kind |-> "Err", err |-> "Io", bytes |-> <<>>]
    ELSE IF <<prefix, suffix>> \in DOMAIN store
         THEN [kind |-> "Ok", err |-> "", bytes |-> store[<<prefix, suffix>>]]
    ELSE [kind |-> "Err", err |-> "Io", bytes |-> <<>>]

\* create_dir_all and File::create(path): the file is made, or emptied when
\* it exists.
FileCreate(store, path) ==
    [k \in DOMAIN store \cup {path} |-> IF k = path THEN <<>> ELSE store[k]]

\* file.write(bytes) on the file just opened: the bytes go in at its start.
FileWrite(store, path, bytes) ==
    [store EXCEPT ![path] = bytes \o Drop(store[path], Len(bytes))]

(***************************************************************************)
(* Entry.                                                                  *)
(***************************************************************************)
\* Entry::to_bytes: [mode] [file name]\0[object ID].  decode_hex(..).unwrap()
\* panics unless the sha1 is hex text of even length (EntryEncodes).
EntryEncodes(e) == decode_hex(e.sha1).kind = "Ok"

to_bytes(e) ==
    Concat(<<OctStr(e.mode), <<SP>>, e.name, <<NUL>>, decode_hex(e.sha1).bytes>>)

\* The length of an entry counted with its address as the 40 characters of
\* its hex text.
EntryLenHex(e) == Len(OctStr(e.mode)) + 1 + Len(e.name) + 1 + Len(e.sha1)

\* Entry::len
EntryLen(e) == Len(to_bytes(e))

RECURSIVE EntriesBytes(_)
EntriesBytes(entries) ==
    IF entries = <<>> THEN <<>>
    ELSE to_bytes(Head(entries)) \o EntriesBytes(Tail(entries))

\* Entry::new: one entry off the front of the iterator.  The result holds the
\* entry and what the iterator has left.
EntryNew(bytes) ==
    LET m == take_until(bytes, SP)
        mode == ParseU32(m.taken)
        n == take_until(m.rest, NUL)
        type_ == IF Head(DecStr(mode.val)) = 49 THEN "blob" ELSE "tree"
        sha1 == encode_hex(Take(n.rest, ShaBytes)) IN
    IF ~IsUtf8(m.taken) THEN [kind |-> "Err", err |-> "FromUtf8Error"]
    ELSE IF ~mode.ok THEN [kind |-> "Err", err |-> "ParseIntError"]
    ELSE IF ~IsUtf8(n.taken) THEN [kind |-> "Err", err |-> "FromUtf8Error"]
    ELSE [kind |-> "Ok", err |-> "",
          entry |-> Entry(mode.val, type_, n.taken, sha1),
          rest |-> Drop(n.rest, ShaBytes)]

(***************************************************************************)
(* Object.                                                                 *)
(***************************************************************************)
\* The bytes get_sha1 hashes: "{type} {len}\0" and the content, or the
\* entries' to_bytes.
HashedBytes(o) ==
    IF o.type = "blob"
    THEN Concat(<<B_blob, <<SP>>, DecStr(o.len), <<NUL>>, o.content>>)
    ELSE Concat(<<B_tree, <<SP>>, DecStr(o.len), <<NUL>>, EntriesBytes(o.entries)>>)

\* Object::get_sha1: format!("{:x}", digest).
get_sha1(o) == encode_hex(Sha1_digest(HashedBytes(o)))

\* get_sha1 panics when an entry's to_bytes does.
Hashable(o) ==
    o.type = "blob" \/ \A i \in 1..Len(o.entries) : EntryEncodes(o.entries[i])

\* Object::from_path: fs::read_to_string is an Err for bytes that are not
\* UTF-8; len is the String's length in bytes.
from_path(file) ==
    IF ~IsUtf8(file) THEN Err("Io") ELSE Ok(Blob(Len(file), file))

RECURSIVE ReadDirLoop(_, _, _)
RECURSIVE read_from_dir(_)

\* Entry::from_dir_entry.  A node of the working directory is
\* [name, kind, mode, content, children].
from_dir_entry(node) ==
    LET object == IF node.kind = "dir"
                  THEN read_from_dir(node.children)
                  ELSE from_path(node.content) IN
    IF object.kind # "Ok" THEN object
    ELSE IF ~IsUtf8(node.name) THEN Err("CorruptFile")
    ELSE Ok(Entry(node.mode, object.obj.type, node.name, get_sha1(object.obj)))

\* The loop of read_from_dir over the directory's members, in the order the
\* file system lists them.
ReadDirLoop(nodes, len, entries) ==
    IF nodes = <<>> THEN Ok(Tree(len, entries))
    ELSE LET node == Head(nodes) IN
         IF ~IsUtf8(node.name) THEN Panic("unwrap")
         ELSE IF node.name \in {B_target, B_dotgit}
              THEN ReadDirLoop(Tail(nodes), len, entries)
         ELSE LET e == from_dir_entry(node) IN
              IF e.kind # "Ok" THEN e
              ELSE ReadDirLoop(Tail(nodes), len + EntryLen(e.obj),
                               Append(entries, e.obj))

\* Object::read_from_dir
read_from_dir(dir) == ReadDirLoop(dir, 0, <<>>)

\* The loop below with each entry put in front of those read before it.
RECURSIVE ReadEntriesInFront(_, _, _)
ReadEntriesInFront(rest, len, entries) ==
    IF rest = <<>> THEN Ok(Tree(len, entries))
    ELSE LET e == EntryNew(rest) IN
         IF e.kind # "Ok" THEN Err(e.err)
         ELSE ReadEntriesInFront(e.rest, len, <<e.entry>> \o entries)

\* The "tree" arm of read_from_sha1: entries are read while bytes are left.
RECURSIVE ReadEntries(_, _, _)
ReadEntries(rest, len, entries) ==
    IF rest = <<>> THEN Ok(Tree(len, entries))
    ELSE LET e == EntryNew(rest) IN
         IF e.kind # "Ok" THEN Err(e.err)
         ELSE ReadEntries(e.rest, len, Append(entries, e.entry))

\* read_from_sha1 from the inflated bytes on: the type up to the first
\* space, the length up to the first NUL (parse::<i32>().unwrap()), then the
\* match on the type.
ParseObject(bytes) ==
    LET t == take_until(bytes, SP)
        l == take_until(t.rest, NUL)
        len == ParseI32(l.taken) IN
    IF ~IsUtf8(t.taken) THEN Err("FromUtf8Error")
    ELSE IF ~IsUtf8(l.taken) THEN Err("FromUtf8Error")
    ELSE IF ~len.ok THEN Panic("unwrap")
    ELSE IF t.taken = B_blob
         THEN IF IsUtf8(l.rest) THEN Ok(Blob(len.val, l.rest))
              ELSE Err("FromUtf8Error")
    ELSE IF t.taken = B_tree THEN ReadEntries(l.rest, len.val, <<>>)
    ELSE Err("CorruptFile")

\* Object::read_from_sha1: every result the call can have.  The slice
\* &object_sha[..2] panics for a string shorter than two bytes.
read_from_sha1(store, object_sha) ==
    IF Len(object_sha) < PrefixLen THEN {Panic("slice")}
    ELSE LET path == PathOf(object_sha)
             f == get_object_file_as_byte_vec(store, path[1], path[2]) IN
         IF f.kind = "Panic" THEN {Panic(f.err)}
         ELSE IF f.kind = "Err" THEN {Err(f.err)}
         ELSE {IF z.kind = "Ok" THEN ParseObject(z.bytes) ELSE Err("Io") :
                  z \in zlib_decompress(f.bytes)}

\* The data write_to_database compresses in the Blob arm of its match.
WrittenData(o) ==
    Concat(<<B_blob, <<SP>>, DecStr(o.len), <<NUL>>, o.content>>)

\* The same call with the file opened for appending instead of created anew.
write_to_database_append(store, o) ==
    LET sha1 == get_sha1(o)
        path == PathOf(sha1)
        old == IF path \in DOMAIN store THEN store[path] ELSE <<>>
        data == IF o.type = "blob" THEN zlib_compress(WrittenData(o)) ELSE <<>> IN
    [store |-> [k \in DOMAIN store \cup {path} |->
                   IF k = path THEN old \o data ELSE store[k]],
     result |-> IF o.type = "blob" THEN Ok(NoObject) ELSE Panic("todo"),
     sha1 |-> sha1]

\* Object::write_to_database: the store it leaves, its result and the address
\* it computed.  get_sha1, create_dir_all and File::create come before the
\* match whose Tree arm is todo!(): for a Tree the file is left created and
\* empty, and the call panics.
write_to_database(store, o) ==
    IF ~Hashable(o)
    THEN [store |-> store, result |-> Panic("unwrap"), sha1 |-> <<>>]
    ELSE LET sha1 == get_sha1(o)
             path == PathOf(sha1)
             created == FileCreate(store, path) IN
         IF o.type = "blob"
         THEN [store |-> FileWrite(created, path, zlib_compress(WrittenData(o))),
               result |-> Ok(NoObject),
               sha1 |-> sha1]
         ELSE [store |-> created, result |-> Panic("todo"), sha1 |-> sha1]

(***************************************************************************)
(* Inputs.                                                                 *)
(***************************************************************************)
SeqsUpTo(S, n) == UNION {[1..k -> S] : k \in 0..n}
Prefixes(s) == {Take(s, k) : k \in 0..Len(s)}

\* File contents: NUL (the header's delimiter) and the two bytes of U+00E9,
\* which are UTF-8 together and in this order only.
Alphabet == {NUL, 195, 169}
Contents == SeqsUpTo(Alphabet, MaxContentLen)

\* Members of a working directory: a file (mode 0o100644), a directory
\* holding it (0o40755), a .git directory, a file that is not UTF-8 and a
\* file whose name is not UTF-8.
FileNode(name, content) ==
    [name |-> name, kind |-> "file", mode |-> 33188,
     content |-> content, children |-> <<>>]
DirNode(name, children) ==
    [name |-> name, kind |-> "dir", mode |-> 16877,
     content |-> <<>>, children |-> children]
Nodes ==
    {FileNode(<<97>>, <<195, 169>>),
     DirNode(<<100>>, <<FileNode(<<97>>, <<195, 169>>)>>),
     DirNode(B_dotgit, <<>>),
     FileNode(<<120>>, <<195>>),
     FileNode(<<255>>, <<>>)}
WorkDirs ==
    {d \in SeqsUpTo(Nodes, MaxDirEntries) :
        \A i, j \in 1..Len(d) : i # j => d[i].name # d[j].name}

\* Entries of the trees another git has left in the store.
StoredEntries ==
    {Entry(33188, "blob", <<97>>, get_sha1(Blob(0, <<>>))),
     Entry(16384, "tree", <<115>>, get_sha1(Tree(0, <<>>))),
     Entry(33261, "blob", <<98, 32, 99>>, get_sha1(Blob(2, <<195, 169>>)))}
EntrySeqs == SeqsUpTo(StoredEntries, MaxTreeEntries)

TreePlaintext(es) == HashedBytes(Tree(Len(EntriesBytes(es)), es))
\* The trees of the model with their bytes, worked out once.
StoredTrees == {[entries |-> es, bytes |-> TreePlaintext(es)] : es \in EntrySeqs}

\* Headers with a type, a length token and a short body, well-formed or not.
HeaderVariants ==
    {Concat(<<t, <<SP>>, l, <<NUL>>, body>>) :
        t \in {B_blob, B_tree, B_commit, <<255>>},
        l \in {<<49>>, <<120>>, <<>>},
        body \in {<<>>, <<97>>, <<255>>}}

\* The inflated bytes of the files found in a store: the above, whole or cut
\* short anywhere.
Plaintexts ==
    UNION {Prefixes(t.bytes) : t \in StoredTrees}
        \cup UNION {Prefixes(pt) : pt \in HeaderVariants}

Sha1Hex(bytes) == encode_hex(Sha1_digest(bytes))
OneFile(path, bytes) == [k \in {path} |-> bytes]
OddName == [i \in 1..40 |-> 103]
ABlob == HashedBytes(Blob(1, <<97>>))

\* Stores as another program left them: one object under the address of its
\* bytes; a file cut short or with a wrong checksum; a file under a name that
\* is no address.
PlantedStores ==
    {OneFile(PathOf(Sha1Hex(pt)), zlib_compress(pt)) : pt \in Plaintexts}
        \cup {OneFile(PathOf(Sha1Hex(ABlob)), f) :
                f \in Prefixes(zlib_compress(ABlob))}
        \cup {OneFile(PathOf(Sha1Hex(ABlob)),
                      Take(zlib_compress(ABlob), Len(zlib_compress(ABlob)) - 1)
                          \o <<255>>),
              OneFile(PathOf(OddName), zlib_compress(ABlob))}

IsObject(o) == o.type \in {"blob", "tree"}

\* read_from_dir on each working directory of the model, worked out once.
ReadFromDirCalls == {[dir |-> d, result |-> read_from_dir(d)] : d \in WorkDirs}

\* The address strings handed to read_from_sha1: the files' addresses, the
\* address of the object in memory, and strings that are no address (empty,
\* one character, a directory's two, 41 characters, 40 that are not hex).
ReadAddresses(store, o) ==
    {k[1] \o k[2] : k \in DOMAIN store}
        \cup (IF IsObject(o) /\ Hashable(o) THEN {get_sha1(o)} ELSE {})
        \cup {<<>>, <<97>>, OddName, Sha1Hex(ABlob)}
        \cup {k[1] : k \in DOMAIN store}
        \cup {k[1] \o k[2] \o <<48>> : k \in DOMAIN store}

(***************************************************************************)
(* The state: the files under .git/objects, the Object the caller holds,   *)
(* the last call with its argument and its result, and how many times in a *)
(* row write_to_database was called on the object held (up to 2).          *)
(***************************************************************************)
VARIABLES objects, obj, op, arg, result, calls

vars == <<objects, obj, op, arg, result, calls>>

NoCall ==
    /\ obj = NoObject
    /\ op = "none"
    /\ arg = <<>>
    /\ result = Ok(NoObject)
    /\ calls = 0

\* `git init` has made an empty .git/objects.
Init ==
    /\ objects = [k \in {} |-> <<>>]
    /\ NoCall

\* A store other programs have written to.
InitDecode ==
    /\ objects \in PlantedStores
    /\ NoCall

FromPath(file) ==
    /\ op' = "from_path"
    /\ arg' = file
    /\ result' = from_path(file)
    /\ obj' = result'.obj
    /\ calls' = 0
    /\ UNCHANGED objects

ReadFromDir(call) ==
    /\ op' = "read_from_dir"
    /\ arg' = <<>>
    /\ result' = call.result
    /\ obj' = result'.obj
    /\ calls' = 0
    /\ UNCHANGED objects

\* write_to_database on the object held.
WriteToDatabase ==
    LET w == write_to_database(objects, obj) IN
    /\ IsObject(obj)
    /\ Cardinality(DOMAIN w.store) <= MaxObjects
    /\ op' = "write_to_database"
    /\ arg' = w.sha1
    /\ result' = w.result
    /\ objects' = w.store
    /\ calls' = IF calls < 2 THEN calls + 1 ELSE calls
    /\ UNCHANGED obj

ReadFromSha1(object_sha) ==
    /\ op' = "read_from_sha1"
    /\ arg' = object_sha
    /\ result' \in read_from_sha1(objects, object_sha)
    /\ obj' = result'.obj
    /\ calls' = 0
    /\ UNCHANGED objects

Next ==
    \/ \E file \in Contents : FromPath(file)
    \/ \E call \in ReadFromDirCalls : ReadFromDir(call)
    \/ WriteToDatabase
    \/ \E a \in ReadAddresses(objects, obj) : ReadFromSha1(a)

Spec == Init /\ [][Next]_vars

NextDecode ==
    \E a \in ReadAddresses(objects, obj) : ReadFromSha1(a)

SpecDecode == InitDecode /\ [][NextDecode]_vars

(***************************************************************************)
(* The claims.                                                             *)
(***************************************************************************)
\* The failure kinds a decoder that rejects malformed bytes may return.
CorruptObject == {"CorruptFile", "FromUtf8Error", "ParseIntError"}

\* The file read_from_sha1 was last pointed at holds a whole zlib stream.
ReadWholeFile ==
    /\ op = "read_from_sha1"
    /\ PathOf(arg) \in DOMAIN objects
    /\ Inflate(objects[PathOf(arg)]).status = "end"

\* The bytes that file inflates to.
ReadPlaintext == Inflate(objects[PathOf(arg)]).data

\* C1: for any bytes c, the Blob {len(c), c} exists (from_path builds it from
\* a file holding c), and once written with write_to_database it is read
\* back from the address get_sha1 gives as a Blob of that length and content.
C1_BlobRoundTrip ==
    /\ op = "from_path" => result = Ok(Blob(Len(arg), arg))
    /\ (op = "write_to_database" /\ obj.type = "blob") =>
           read_from_sha1(objects, get_sha1(obj)) = {Ok(obj)}

\* C2: for every Object, Blob or Tree, write_to_database completes and
\* leaves at the path of get_sha1 the compressed "<type> <length>\0<body>".
C2_WritePostcondition ==
    op = "write_to_database" =>
        /\ result.kind = "Ok"
        /\ PathOf(get_sha1(obj)) \in DOMAIN objects
        /\ objects[PathOf(get_sha1(obj))] = zlib_compress(HashedBytes(obj))

\* C3: a second write_to_database in a row on the same object leaves the
\* store as the first left it (the same files, each with the same bytes, one
\* of them at the object's path), with the same address and the same result.
C3_IdempotentWrite ==
    [][(op = "write_to_database" /\ op' = "write_to_database") =>
          /\ objects' = objects
          /\ arg' = arg
          /\ result' = result
          /\ PathOf(arg') \in DOMAIN objects']_vars

\* A Blob has been written twice in a row.
C3_Witness ==
    /\ op = "write_to_database"
    /\ calls = 2
    /\ obj.type = "blob"
    /\ result.kind = "Ok"
    /\ Cardinality(DOMAIN objects) = 1

\* C4: the decoder returns no Entry whose address is shorter than 40 hex
\* characters: a Tree body cut short inside an entry's address is an error.
C4_TruncatedTreeRejected ==
    (op = "read_from_sha1" /\ result.kind = "Ok" /\ obj.type = "tree") =>
        \A i \in 1..Len(obj.entries) : Len(obj.entries[i].sha1) = 2 * ShaBytes

\* C5: bytes whose type token, the bytes before the first space, is neither
\* "blob" nor "tree" are refused with a failure value, and no Object is
\* returned.
C5_UnknownTypeRejected ==
    (/\ ReadWholeFile
     /\ FirstIndex(ReadPlaintext, SP) > 0
     /\ take_until(ReadPlaintext, SP).taken \notin {B_blob, B_tree}) =>
        (result.kind = "Err" /\ result.err \in CorruptObject)

\* C6: read_from_sha1 never panics: it returns an Object or a failure value.
C6_NeverPanics == op = "read_from_sha1" => result.kind # "Panic"

\* C7: the bytes of a Tree whose body is the encodings of e1..en, one after
\* the other, are read as a Tree of n entries with the names and addresses
\* of e1..en in that order.
C7_TreeOrderPreserved ==
    ReadWholeFile =>
        LET bytes == ReadPlaintext IN
        \A t \in StoredTrees :
            bytes = t.bytes =>
                /\ result.kind = "Ok"
                /\ obj.type = "tree"
                /\ Len(obj.entries) = Len(t.entries)
                /\ \A i \in 1..Len(t.entries) :
                      /\ obj.entries[i].name = t.entries[i].name
                      /\ obj.entries[i].sha1 = t.entries[i].sha1

\* A Tree of two different entries has been read.
C7_Witness ==
    /\ ReadWholeFile
    /\ result.kind = "Ok"
    /\ \E t \in StoredTrees :
          /\ Len(t.entries) = 2
          /\ t.entries[1] # t.entries[2]
          /\ ReadPlaintext = t.bytes

\* C8: a Blob built by from_path has len equal to the byte length of its
\* content; a Tree built by read_from_dir has len equal to the byte length of
\* its entries' to_bytes one after the other, the body get_sha1 hashes.
C8_LengthInvariant ==
    /\ (op = "from_path" /\ result.kind = "Ok") =>
           (obj.type = "blob" /\ obj.len = Len(obj.content))
    /\ (op = "read_from_dir" /\ result.kind = "Ok") =>
           /\ obj.type = "tree"
           /\ obj.len = Len(EntriesBytes(obj.entries))
           /\ HashedBytes(obj) =
                  Concat(<<B_tree, <<SP>>, DecStr(obj.len), <<NUL>>>>)
                      \o EntriesBytes(obj.entries)

\* read_from_dir has built a Tree of a file and a directory.
C8_Witness ==
    /\ op = "read_from_dir"
    /\ result.kind = "Ok"
    /\ Len(obj.entries) = 2
    /\ obj.len > 0

\* A string of exactly 40 hex characters.
IsAddress(a) == Len(a) = 2 * ShaBytes /\ \A i \in 1..Len(a) : IsHexChar(a[i])

\* C9: a string that is not 40 hex characters is refused with an
\* InvalidAddress failure value.
C9_InvalidAddressRejected ==
    (op = "read_from_sha1" /\ ~IsAddress(arg)) => result = Err("InvalidAddress")

\* C10: bytes with no space after the type token, or no NUL after the length
\* token, are refused with a failure value rather than read as an Object.
C10_MissingDelimiterRejected ==
    (/\ ReadWholeFile
     /\ \/ FirstIndex(ReadPlaintext, SP) = 0
        \/ FirstIndex(take_until(ReadPlaintext, SP).rest, NUL) = 0) =>
        (result.kind = "Err" /\ result.err \in CorruptObject)

\* C11: for every Entry that from_dir_entry has put into a Tree, Entry::new on
\* the entry's to_bytes returns an Entry with the same mode, name and sha1 and
\* leaves nothing unread, and the to_bytes of that Entry are the same bytes.
C11_EntryRoundTrip ==
    (op = "read_from_dir" /\ result.kind = "Ok") =>
        \A i \in 1..Len(obj.entries) :
            LET e == obj.entries[i]
                d == EntryNew(to_bytes(e)) IN
            /\ d.kind = "Ok"
            /\ d.rest = <<>>
            /\ d.entry.mode = e.mode
            /\ d.entry.name = e.name
            /\ d.entry.sha1 = e.sha1
            /\ to_bytes(d.entry) = to_bytes(e)

=============================================================================
